---- MODULE Spec2Model ----
(***************************************************************************)
(* Model of run_batch.py: the batch runner process_prompts, the result     *)
(* ledger file it appends to, and count_existing_results, the count-based  *)
(* resume cursor.                                                          *)
(*                                                                         *)
(* The ledger file is a sequence of tokens.  The token i >= 0 is the text  *)
(* json.dumps(record) of the record built for the prompt at source index i *)
(* (0-based, as in the Python list), the token NL is the "\n" that ends a  *)
(* line.  One run of process_prompts is a sequence of steps (pc), so that  *)
(* a KeyboardInterrupt can arrive between any two of them.                 *)
(***************************************************************************)
EXTENDS Integers, Sequences, FiniteSets, TLC

\* ---- bounds of the model ------------------------------------------------
MaxPrompts == 5
MaxLimit == 3
MaxRuns == 3
MaxCacheLines == 2
MaxKillPrompts == 3
MaxLivePrompts == 3
MaxLoads == 3

\* ---- tokens of the ledger file ---------------------------------------------
NL == -1

\* ---- lines of the prompt cache file --------------------------------------------
\* a cache line is i >= 0, the text json.dumps({"prompt": prompts[i]}) of the
\* dataset row i, or one of:
BLANK_LINE == -1    \* whitespace only
BAD_JSON == -2      \* not JSON (also a line cut short by a kill)
NO_PROMPT == -3     \* a JSON object without the "prompt" key
NOT_OBJECT == -4    \* JSON that is not an object: a list, a string, a number

Outcomes == {"Completed", "TimedOut", "EmptyResponse", "Failed"}
Failures == {"TimedOut", "EmptyResponse", "Failed"}

VARIABLES
    STOP_AFTER_LIMIT,   \* run_batch.py:17
    OUTPUT_LIMIT,       \* run_batch.py:18
    total_prompts,      \* len(prompts), run_batch.py:77
    results_path,       \* the ledger file on disk: [exists, data]
    results_file,       \* text written to the open handle and not yet flushed
    client,             \* "none" | "open" | "closed"
    pc,                 \* position of the runner inside process_prompts
    processed_count,    \* run_batch.py:78
    prompts_to_process, \* run_batch.py:102, as the sequence of source indices
    index,              \* 0-based position of the loop in prompts_to_process
    outcome,            \* outcome of the request of the current item
    \* ---- history of the current run (observation only) ----
    runs,               \* number of runs started
    exit,               \* how the last run ended: "none" | "returned" | "raised"
    startData,          \* ledger data when the run started
    submitted,          \* source index -> number of requests issued this run
    outcomes,           \* source index -> last outcome this run ("none" if none)
    interrupted,        \* a KeyboardInterrupt arrived in this run
    prevClean,          \* the previous run returned without an interrupt
    closes,             \* number of client.close() calls this run
    badRequests,        \* requests issued on a client that was not open
    reported,           \* "Output limit ... reached; stopping early." printed
    skipped,            \* source indices whose request failed in an earlier run
    \* ---- load_prompts ----
    dataset,            \* number of rows of the upstream dataset
    cache,              \* the cache file on disk: [exists, lines]
    cache_file,         \* lines written to the open cache handle (line 60)
    prompts,            \* the list load_prompts returned
    lpc,                \* position inside load_prompts: "idle" | "fetch" | "write"
    lexit,              \* how the last call ended: "none" | "returned" | "raised" | "killed"
    \* ---- history of load_prompts (observation only) ----
    loads,              \* number of calls started
    cacheAtLoad,        \* the cache file when the last call started
    killedWriting       \* some call was killed while it was writing the cache

vars == <<STOP_AFTER_LIMIT, OUTPUT_LIMIT, total_prompts, results_path,
          results_file, client, pc, processed_count, prompts_to_process,
          index, outcome, runs, exit, startData, submitted, outcomes,
          interrupted, prevClean, closes, badRequests, reported, skipped,
          dataset, cache, cache_file, prompts, lpc, lexit, loads, cacheAtLoad,
          killedWriting>>

\* the state of load_prompts and of its cache file
cacheVars == <<dataset, cache, cache_file, prompts, lpc, lexit, loads,
               cacheAtLoad, killedWriting>>

\* what no step of process_prompts changes: the module constants, the length
\* of the prompt list it was given, and the cache
config == <<STOP_AFTER_LIMIT, OUTPUT_LIMIT, total_prompts, cacheVars>>

\* the state of process_prompts and of its ledger
runnerVars == <<STOP_AFTER_LIMIT, OUTPUT_LIMIT, total_prompts, results_path,
                results_file, client, pc, processed_count, prompts_to_process,
                index, outcome, runs, exit, startData, submitted, outcomes,
                interrupted, prevClean, closes, badRequests, reported,
                skipped>>

Indices == 0..(MaxPrompts - 1)

Min(a, b) == IF a <= b THEN a ELSE b
Max(a, b) == IF a >= b THEN a ELSE b

\* ---- pure functions -------------------------------------------------------

\* sum(1 for line in results_file if line.strip()): a line is a maximal run
\* of text up to and including its "\n"; the last line may lack the "\n".
NonBlankLines(data) ==
    Cardinality({k \in 1..Len(data) :
                    data[k] # NL /\ (k = 1 \/ data[k - 1] = NL)})

\* the count taken as if the first line of the file were a header
count_existing_results_header(f) ==
    IF ~f.exists THEN 0 ELSE Max(0, NonBlankLines(f.data) - 1)

count_existing_results(f) ==
    IF ~f.exists THEN 0 ELSE NonBlankLines(f.data)

\* the file after count_existing_results: touch() creates it empty
Touched(f) == IF f.exists THEN f ELSE [exists |-> TRUE, data |-> <<>>]

\* the capacity computed without subtracting what the ledger already holds
remaining_capacity_whole(p) ==
    IF STOP_AFTER_LIMIT THEN OUTPUT_LIMIT ELSE total_prompts - p

\* lines 80-86
remaining_capacity(p) ==
    IF STOP_AFTER_LIMIT THEN OUTPUT_LIMIT - p ELSE total_prompts - p

\* lines 80-94: the three early returns
NothingToDo(p) ==
    \/ STOP_AFTER_LIMIT /\ p >= OUTPUT_LIMIT
    \/ remaining_capacity(p) <= 0
    \/ p >= total_prompts

\* the slice taken as the index range a .. b - 1, not cut at the end of the list
PySlice_unclamped(n, a, b) == [k \in 1..Max(0, b - a) |-> a + k - 1]

\* Python's prompts[a:b] for 0 <= a, 0 <= b on a list of length n, as the
\* sequence of the source indices it selects
PySlice(n, a, b) ==
    LET start == Min(a, n)
        stop  == Min(b, n)
        len   == Max(0, stop - start)
    IN  [k \in 1..len |-> start + k - 1]

\* the slice taken up to the end of the list, whatever the capacity
Slice_toEnd(p) == PySlice(total_prompts, p, total_prompts)

\* the slice taken from the front of the list instead of from the cursor
Slice_front(p) == PySlice(total_prompts, 0, remaining_capacity(p))

\* line 102
Slice(p) == PySlice(total_prompts, p, p + remaining_capacity(p))

\* the record's text written without its line terminator
RecordLine_noNewline(i) == <<i>>

\* line 159: json.dumps(record) + "\n"
RecordLine(i) == <<i, NL>>

\* what reaches the disk when the buffered handle is flushed or closed
Flushed(f, buffer) == [f EXCEPT !.data = f.data \o buffer]

\* line 166
LimitReportDue ==
    STOP_AFTER_LIMIT /\ processed_count + Len(prompts_to_process) >= OUTPUT_LIMIT

NoSubmissions == [i \in Indices |-> 0]
NoOutcomes == [i \in Indices |-> "none"]

\* ---- load_prompts: pure functions ------------------------------------------

\* line 55-56: the rows of the dataset, in order, each named by its index
Upstream == [k \in 1..dataset |-> k - 1]

\* position of the first line on which json.loads(line)["prompt"] raises,
\* 0 if there is none (blank lines are skipped, line 50)
FirstBad(lines) ==
    LET bad == {k \in 1..Len(lines) :
                   lines[k] \in {BAD_JSON, NO_PROMPT, NOT_OBJECT}}
    IN  IF bad = {} THEN 0
        ELSE CHOOSE k \in bad : \A j \in bad : k <= j

IsPromptLine(line) == line >= 0

\* line 50: the list built from a cache in which no line raises
Parsed(lines) == SelectSeq(lines, IsPromptLine)

\* no load_prompts call has been made, the cache file does not exist
CacheAbsent ==
    /\ cache = [exists |-> FALSE, lines |-> <<>>]
    /\ cache_file = <<>>
    /\ prompts = <<>>
    /\ lpc = "idle"
    /\ lexit = "none"
    /\ loads = 0
    /\ cacheAtLoad = [exists |-> FALSE, lines |-> <<>>]
    /\ killedWriting = FALSE

\* ---- initial state -----------------------------------------------------------
Init ==
    /\ STOP_AFTER_LIMIT \in BOOLEAN
    /\ OUTPUT_LIMIT \in 1..MaxLimit
    /\ total_prompts \in 0..MaxPrompts
    /\ results_path = [exists |-> FALSE, data |-> <<>>]
    /\ results_file = <<>>
    /\ client = "none"
    /\ pc = "idle"
    /\ processed_count = 0
    /\ prompts_to_process = <<>>
    /\ index = 0
    /\ outcome = "none"
    /\ runs = 0
    /\ exit = "none"
    /\ startData = <<>>
    /\ submitted = NoSubmissions
    /\ outcomes = NoOutcomes
    /\ interrupted = FALSE
    /\ prevClean = FALSE
    /\ closes = 0
    /\ badRequests = 0
    /\ reported = FALSE
    /\ skipped = {}
    /\ dataset = total_prompts
    /\ CacheAbsent

\* ---- steps of process_prompts ----------------------------------------------

\* lines 75-94: count the ledger, then return early or go on
CountAndCheck ==
    /\ pc = "idle"
    /\ runs < MaxRuns
    /\ LET p == count_existing_results(results_path) IN
        /\ processed_count' = p
        /\ results_path' = Touched(results_path)
        /\ IF NothingToDo(p)
              THEN /\ pc' = "idle"
                   /\ exit' = "returned"
              ELSE /\ pc' = "create"
                   /\ exit' = "none"
    /\ runs' = runs + 1
    /\ startData' = results_path.data
    /\ prevClean' = (exit = "returned" /\ ~interrupted)
    /\ skipped' = skipped \cup {i \in Indices : outcomes[i] \in Failures}
    /\ submitted' = NoSubmissions
    /\ outcomes' = NoOutcomes
    /\ interrupted' = FALSE
    /\ closes' = 0
    /\ badRequests' = 0
    /\ reported' = FALSE
    /\ client' = "none"
    /\ prompts_to_process' = <<>>
    /\ index' = 0
    /\ outcome' = "none"
    /\ results_file' = <<>>
    /\ UNCHANGED config

\* lines 96-97
CreateClient ==
    /\ pc = "create"
    /\ client' = "open"
    /\ pc' = "try"
    /\ UNCHANGED <<config, skipped, results_path, results_file, processed_count,
                   prompts_to_process, index, outcome, runs, exit, startData,
                   submitted, outcomes, interrupted, prevClean, closes,
                   badRequests, reported>>

\* the ledger opened with mode "w": the existing records are truncated
OpenResults_truncate ==
    /\ pc = "try"
    /\ prompts_to_process' = Slice(processed_count)
    /\ results_path' = [results_path EXCEPT !.data = <<>>]
    /\ results_file' = <<>>
    /\ index' = 0
    /\ pc' = "loop"
    /\ UNCHANGED <<config, skipped, client, processed_count, outcome,
                   runs, exit, startData, submitted, outcomes, interrupted,
                   prevClean, closes, badRequests, reported>>

\* lines 99-113: enter the try block, open the ledger for append, take the slice
OpenResults ==
    /\ pc = "try"
    /\ prompts_to_process' = Slice(processed_count)
    /\ results_file' = <<>>
    /\ index' = 0
    /\ pc' = "loop"
    /\ UNCHANGED <<config, skipped, results_path, client, processed_count, outcome,
                   runs, exit, startData, submitted, outcomes, interrupted,
                   prevClean, closes, badRequests, reported>>

\* lines 114-117: take the next item of the slice, or leave the loop
NextItem ==
    /\ pc = "loop"
    /\ pc' = IF index < Len(prompts_to_process) THEN "request" ELSE "after"
    /\ outcome' = "none"
    /\ UNCHANGED <<config, skipped, results_path, results_file, client, processed_count,
                   prompts_to_process, index, runs, exit, startData, submitted,
                   outcomes, interrupted, prevClean, closes, badRequests,
                   reported>>

\* the source index of the item the loop is at
Current == prompts_to_process[index + 1]

\* line 119: the request goes out
SendRequest ==
    /\ pc = "request"
    /\ submitted' = [submitted EXCEPT ![Current] = @ + 1]
    /\ badRequests' = IF client = "open" THEN badRequests ELSE badRequests + 1
    /\ pc' = "inflight"
    /\ UNCHANGED <<config, skipped, results_path, results_file, client, processed_count,
                   prompts_to_process, index, outcome, runs, exit, startData,
                   outcomes, interrupted, prevClean, closes, reported>>

\* lines 119-131: the request resolves
Resolve ==
    /\ pc = "inflight"
    /\ \E o \in Outcomes :
        /\ outcome' = o
        /\ outcomes' = [outcomes EXCEPT ![Current] = o]
    /\ pc' = "response"
    /\ UNCHANGED <<config, skipped, results_path, results_file, client, processed_count,
                   prompts_to_process, index, runs, exit, startData, submitted,
                   interrupted, prevClean, closes, badRequests, reported>>

\* `continue`: on to the next item of the slice
Continue ==
    /\ index' = index + 1
    /\ pc' = "loop"

\* a timeout after which the same item is requested again
OnTimeout_retry ==
    /\ pc = "response"
    /\ outcome = "TimedOut"
    /\ pc' = "request"
    /\ UNCHANGED <<config, skipped, results_path, results_file, client,
                   processed_count, prompts_to_process, index, outcome, runs,
                   exit, startData, submitted, outcomes, interrupted,
                   prevClean, closes, badRequests, reported>>

\* a timeout that leaves the loop (`break`) instead of going on
OnTimeout_break ==
    /\ pc = "response"
    /\ outcome = "TimedOut"
    /\ pc' = "after"
    /\ UNCHANGED <<config, skipped, results_path, results_file, client, processed_count,
                   prompts_to_process, index, outcome, runs, exit, startData,
                   submitted, outcomes, interrupted, prevClean, closes,
                   badRequests, reported>>

\* lines 132-136
OnTimeout ==
    /\ pc = "response"
    /\ outcome = "TimedOut"
    /\ Continue
    /\ UNCHANGED <<config, skipped, results_path, results_file, client, processed_count,
                   prompts_to_process, outcome, runs, exit, startData,
                   submitted, outcomes, interrupted, prevClean, closes,
                   badRequests, reported>>

\* lines 137-142
OnError ==
    /\ pc = "response"
    /\ outcome = "Failed"
    /\ Continue
    /\ UNCHANGED <<config, skipped, results_path, results_file, client, processed_count,
                   prompts_to_process, outcome, runs, exit, startData,
                   submitted, outcomes, interrupted, prevClean, closes,
                   badRequests, reported>>

\* lines 144-148
OnEmptyChoices ==
    /\ pc = "response"
    /\ outcome = "EmptyResponse"
    /\ Continue
    /\ UNCHANGED <<config, skipped, results_path, results_file, client, processed_count,
                   prompts_to_process, outcome, runs, exit, startData,
                   submitted, outcomes, interrupted, prevClean, closes,
                   badRequests, reported>>

\* the record built from the item at the loop position counted from the
\* front of the whole list, prompts[index], instead of the slice item
WriteRecord_relative ==
    /\ pc = "response"
    /\ outcome = "Completed"
    /\ results_file' = results_file \o RecordLine(index)
    /\ pc' = "written"
    /\ UNCHANGED <<config, skipped, results_path, client, processed_count,
                   prompts_to_process, index, outcome, runs, exit, startData,
                   submitted, outcomes, interrupted, prevClean, closes,
                   badRequests, reported>>

\* lines 150-159: build the record and write its line to the handle
WriteRecord ==
    /\ pc = "response"
    /\ outcome = "Completed"
    /\ results_file' = results_file \o RecordLine(Current)
    /\ pc' = "written"
    /\ UNCHANGED <<config, skipped, results_path, client, processed_count,
                   prompts_to_process, index, outcome, runs, exit, startData,
                   submitted, outcomes, interrupted, prevClean, closes,
                   badRequests, reported>>

\* the iteration without results_file.flush(): the line stays in the handle
FlushRecord_noFlush ==
    /\ pc = "written"
    /\ Continue
    /\ UNCHANGED <<config, skipped, results_path, results_file, client, processed_count,
                   prompts_to_process, outcome, runs, exit, startData,
                   submitted, outcomes, interrupted, prevClean, closes,
                   badRequests, reported>>

\* lines 160-164: flush, advance the progress bar, next iteration
FlushRecord ==
    /\ pc = "written"
    /\ results_path' = Flushed(results_path, results_file)
    /\ results_file' = <<>>
    /\ Continue
    /\ UNCHANGED <<config, skipped, client, processed_count, prompts_to_process,
                   outcome, runs, exit, startData, submitted, outcomes,
                   interrupted, prevClean, closes, badRequests, reported>>

\* end of the `with` blocks and lines 166-167
AfterLoop ==
    /\ pc = "after"
    /\ results_path' = Flushed(results_path, results_file)
    /\ results_file' = <<>>
    /\ reported' = LimitReportDue
    /\ pc' = "finally"
    /\ UNCHANGED <<config, skipped, client, processed_count, prompts_to_process, index,
                   outcome, runs, exit, startData, submitted, outcomes,
                   interrupted, prevClean, closes, badRequests>>

InTry == {"loop", "request", "inflight", "response", "written"}

\* the interrupt handled with client.close() at the end of the try body
\* instead of in a finally clause: the interrupted run returns without it
KeyboardInterrupt_noClose ==
    /\ pc \in InTry
    /\ results_path' = Flushed(results_path, results_file)
    /\ results_file' = <<>>
    /\ interrupted' = TRUE
    /\ exit' = "returned"
    /\ pc' = "idle"
    /\ UNCHANGED <<config, skipped, client, processed_count, prompts_to_process, index,
                   outcome, runs, startData, submitted, outcomes,
                   prevClean, closes, badRequests, reported>>

\* the interrupt handled without closing the ledger handle: the text still
\* in the handle never reaches the file
KeyboardInterrupt_drop ==
    /\ pc \in InTry
    /\ results_file' = <<>>
    /\ interrupted' = TRUE
    /\ pc' = "finally"
    /\ UNCHANGED <<config, skipped, results_path, client, processed_count,
                   prompts_to_process, index, outcome, runs, exit, startData,
                   submitted, outcomes, prevClean, closes, badRequests,
                   reported>>

\* lines 168-169: a KeyboardInterrupt inside the try block; unwinding leaves
\* the `with` block, which closes the ledger handle
KeyboardInterrupt ==
    /\ pc \in InTry
    /\ results_path' = Flushed(results_path, results_file)
    /\ results_file' = <<>>
    /\ interrupted' = TRUE
    /\ pc' = "finally"
    /\ UNCHANGED <<config, skipped, client, processed_count, prompts_to_process, index,
                   outcome, runs, exit, startData, submitted, outcomes,
                   prevClean, closes, badRequests, reported>>

\* a KeyboardInterrupt at lines 96-97, before the try block is entered:
\* nothing catches it, process_prompts does not return
UncaughtInterrupt ==
    /\ pc \in {"create", "try"}
    /\ interrupted' = TRUE
    /\ exit' = "raised"
    /\ pc' = "idle"
    /\ UNCHANGED <<config, skipped, results_path, results_file, client, processed_count,
                   prompts_to_process, index, outcome, runs, startData,
                   submitted, outcomes, prevClean, closes, badRequests,
                   reported>>

\* lines 170-171
Finally ==
    /\ pc = "finally"
    /\ client' = "closed"
    /\ closes' = closes + 1
    /\ exit' = "returned"
    /\ pc' = "idle"
    /\ UNCHANGED <<config, skipped, results_path, results_file, processed_count,
                   prompts_to_process, index, outcome, runs, startData,
                   submitted, outcomes, interrupted, prevClean, badRequests,
                   reported>>

Next ==
    \/ CountAndCheck
    \/ CreateClient
    \/ OpenResults
    \/ NextItem
    \/ SendRequest
    \/ Resolve
    \/ OnTimeout
    \/ OnError
    \/ OnEmptyChoices
    \/ WriteRecord
    \/ FlushRecord
    \/ AfterLoop
    \/ KeyboardInterrupt
    \/ UncaughtInterrupt
    \/ Finally

Spec == Init /\ [][Next]_vars

\* ---- process_prompts as a running program ----------------------------------------

\* the steps process_prompts takes by itself once it has started: the
\* interpreter keeps executing, and every request resolves (Resolve) with a
\* response, an error, or a timeout after REQUEST_TIMEOUT_SECONDS
RunStep ==
    \/ CreateClient
    \/ OpenResults
    \/ NextItem
    \/ SendRequest
    \/ Resolve
    \/ OnTimeout
    \/ OnError
    \/ OnEmptyChoices
    \/ WriteRecord
    \/ FlushRecord
    \/ AfterLoop
    \/ Finally

\* the same initial states, for prompt lists of up to MaxLivePrompts items
LiveInit == Init /\ total_prompts <= MaxLivePrompts

SpecLive == LiveInit /\ [][Next]_vars /\ WF_vars(RunStep)

\* ---- process_prompts under kills ------------------------------------------------

\* what a kill can leave on disk of the text held by the ledger handle:
\* nothing, or, when the kill falls inside the flush, the head of the line
\* (BAD_JSON: the text of a record cut short, without its "\n")
KilledFlush(f, buffer) ==
    {f} \cup (IF buffer = <<>> THEN {}
              ELSE {[f EXCEPT !.data = f.data \o <<BAD_JSON>>]})

\* the process is killed inside process_prompts: no handler runs, the text
\* still in the handle is lost
Kill ==
    /\ pc # "idle"
    /\ results_path' \in KilledFlush(results_path, results_file)
    /\ results_file' = <<>>
    /\ exit' = "killed"
    /\ pc' = "idle"
    /\ UNCHANGED <<config, skipped, client, processed_count, prompts_to_process, index,
                   outcome, runs, startData, submitted, outcomes, interrupted,
                   prevClean, closes, badRequests, reported>>

KillNext ==
    \/ Next
    \/ Kill

\* the same initial states, for prompt lists of up to MaxKillPrompts items
KillInit == Init /\ total_prompts <= MaxKillPrompts

SpecKill == KillInit /\ [][KillNext]_vars

\* ---- load_prompts (lines 46-62) ------------------------------------------------

LineKinds == Indices \cup {BLANK_LINE, BAD_JSON, NO_PROMPT, NOT_OBJECT}

RECURSIVE LinesUpTo(_)
LinesUpTo(n) ==
    IF n = 0 THEN {<<>>}
    ELSE LinesUpTo(n - 1) \cup
         {Append(l, x) : l \in {m \in LinesUpTo(n - 1) : Len(m) = n - 1},
                         x \in LineKinds}

\* process_prompts has not been called; its state stays as it is here
RunnerQuiet ==
    /\ STOP_AFTER_LIMIT = TRUE
    /\ OUTPUT_LIMIT = MaxLimit
    /\ total_prompts = 0
    /\ results_path = [exists |-> FALSE, data |-> <<>>]
    /\ results_file = <<>>
    /\ client = "none"
    /\ pc = "idle"
    /\ processed_count = 0
    /\ prompts_to_process = <<>>
    /\ index = 0
    /\ outcome = "none"
    /\ runs = 0
    /\ exit = "none"
    /\ startData = <<>>
    /\ submitted = NoSubmissions
    /\ outcomes = NoOutcomes
    /\ interrupted = FALSE
    /\ prevClean = FALSE
    /\ closes = 0
    /\ badRequests = 0
    /\ reported = FALSE
    /\ skipped = {}

\* the cache file is absent or holds any lines, as an earlier program, a
\* kill or an editor may have left it
CacheInit ==
    /\ RunnerQuiet
    /\ dataset \in 0..MaxPrompts
    /\ \/ cache = [exists |-> FALSE, lines |-> <<>>]
       \/ \E l \in LinesUpTo(MaxCacheLines) : cache = [exists |-> TRUE, lines |-> l]
    /\ cache_file = <<>>
    /\ prompts = <<>>
    /\ lpc = "idle"
    /\ lexit = "none"
    /\ loads = 0
    /\ cacheAtLoad = cache
    /\ killedWriting = FALSE

\* a call starts
LoadBegins ==
    /\ lpc = "idle"
    /\ loads < MaxLoads
    /\ loads' = loads + 1
    /\ cacheAtLoad' = cache

\* lines 47-50: the cache exists and every line parses
LoadFromCache ==
    /\ LoadBegins
    /\ cache.exists
    /\ FirstBad(cache.lines) = 0
    /\ prompts' = Parsed(cache.lines)
    /\ lexit' = "returned"
    /\ UNCHANGED <<runnerVars, dataset, cache, cache_file, lpc, killedWriting>>

\* lines 47-53: json.JSONDecodeError or KeyError on some line: the cache is
\* unlinked and the call goes on to fetch
RebuildCache ==
    /\ LoadBegins
    /\ cache.exists
    /\ FirstBad(cache.lines) > 0
    /\ cache.lines[FirstBad(cache.lines)] \in {BAD_JSON, NO_PROMPT}
    /\ cache' = [exists |-> FALSE, lines |-> <<>>]
    /\ lpc' = "fetch"
    /\ lexit' = "none"
    /\ UNCHANGED <<runnerVars, dataset, cache_file, prompts, killedWriting>>

\* lines 50-51: value["prompt"] on a list, a string or a number raises a
\* TypeError, which the except clause does not name: the call raises
LoadTypeError ==
    /\ LoadBegins
    /\ cache.exists
    /\ FirstBad(cache.lines) > 0
    /\ cache.lines[FirstBad(cache.lines)] = NOT_OBJECT
    /\ lexit' = "raised"
    /\ UNCHANGED <<runnerVars, dataset, cache, cache_file, prompts, lpc,
                   killedWriting>>

\* line 47: there is no cache file
LoadMissing ==
    /\ LoadBegins
    /\ ~cache.exists
    /\ lpc' = "fetch"
    /\ lexit' = "none"
    /\ UNCHANGED <<runnerVars, dataset, cache, cache_file, prompts,
                   killedWriting>>

\* lines 55-58: fetch the dataset, open the cache with mode "w"
FetchDataset ==
    /\ lpc = "fetch"
    /\ cache' = [exists |-> TRUE, lines |-> <<>>]
    /\ cache_file' = <<>>
    /\ lpc' = "write"
    /\ UNCHANGED <<runnerVars, dataset, prompts, lexit, loads, cacheAtLoad,
                   killedWriting>>

\* lines 59-60: one iteration of the write loop
WriteCacheLine ==
    /\ lpc = "write"
    /\ Len(cache_file) < dataset
    /\ cache_file' = Append(cache_file, Upstream[Len(cache_file) + 1])
    /\ UNCHANGED <<runnerVars, dataset, cache, prompts, lpc, lexit, loads,
                   cacheAtLoad, killedWriting>>

\* end of the `with` block and line 62
CloseCache ==
    /\ lpc = "write"
    /\ Len(cache_file) = dataset
    /\ cache' = [exists |-> TRUE, lines |-> cache_file]
    /\ cache_file' = <<>>
    /\ prompts' = Upstream
    /\ lpc' = "idle"
    /\ lexit' = "returned"
    /\ UNCHANGED <<runnerVars, dataset, loads, cacheAtLoad, killedWriting>>

\* what a kill can leave on disk of the lines written to the handle: any
\* number of whole lines, then possibly the head of the next line
LeftOnDisk(written) ==
    {SubSeq(written, 1, n) : n \in 0..Len(written)} \cup
    {Append(SubSeq(written, 1, n), BAD_JSON) : n \in 0..(Len(written) - 1)}

\* the process is killed inside load_prompts
KillLoad ==
    /\ lpc \in {"fetch", "write"}
    /\ IF lpc = "write"
          THEN /\ \E l \in LeftOnDisk(cache_file) :
                    cache' = [exists |-> TRUE, lines |-> l]
               /\ killedWriting' = TRUE
          ELSE UNCHANGED <<cache, killedWriting>>
    /\ cache_file' = <<>>
    /\ lpc' = "idle"
    /\ lexit' = "killed"
    /\ UNCHANGED <<runnerVars, dataset, prompts, loads, cacheAtLoad>>

CacheNext ==
    \/ LoadFromCache
    \/ RebuildCache
    \/ LoadTypeError
    \/ LoadMissing
    \/ FetchDataset
    \/ WriteCacheLine
    \/ CloseCache
    \/ KillLoad

SpecCache == CacheInit /\ [][CacheNext]_vars

TypeOK ==
    /\ OUTPUT_LIMIT \in 1..MaxLimit
    /\ total_prompts \in 0..MaxPrompts
    /\ pc \in {"idle", "create", "try", "after", "finally"} \cup InTry
    /\ client \in {"none", "open", "closed"}
    /\ outcome \in Outcomes \cup {"none"}
    /\ runs \in 0..MaxRuns

\* ---- observations used by the properties ------------------------------------

\* number of records in the ledger file
Count == NonBlankLines(results_path.data)

\* number of records in the ledger when the current run started
StartCount == NonBlankLines(startData)

\* number of lines of the ledger file that record source index i
RecordsOf(i) ==
    Cardinality({k \in 1..Len(results_path.data) : results_path.data[k] = i})

\* the run has ended by returning, without an interrupt
RunReturnedClean == pc = "idle" /\ exit = "returned" /\ ~interrupted

\* ---- C1 ----------------------------------------------------------------------
\* C1: with the limit enabled, the number of records in the ledger never
\* exceeds OUTPUT_LIMIT in any reachable state, whatever the outcomes and
\* wherever interrupts arrive.
C1_LimitInvariant == STOP_AFTER_LIMIT => Count <= OUTPUT_LIMIT

\* a resumed run, after an earlier one left records, fills the ledger up to
\* the limit while prompts remain
C1_Witness ==
    /\ STOP_AFTER_LIMIT
    /\ pc = "idle"
    /\ runs >= 2
    /\ StartCount > 0
    /\ Count > StartCount
    /\ Count = OUTPUT_LIMIT
    /\ total_prompts > OUTPUT_LIMIT

\* ---- C2 ----------------------------------------------------------------------
\* C2: no source index has more than one record in the ledger.
C2_NoDuplicateRecords == \A i \in Indices : RecordsOf(i) <= 1

\* ---- C3 ----------------------------------------------------------------------
\* C3: during a run, no request is issued for a source index below the
\* record count the ledger had when the run started.
C3_NoResubmitBelowCursor ==
    \A i \in Indices : i < StartCount => submitted[i] = 0

\* a run that started from a non-empty ledger has issued a request
C3_Witness ==
    /\ StartCount > 0
    /\ \E i \in Indices : i >= StartCount /\ submitted[i] > 0

\* ---- C4 ----------------------------------------------------------------------
\* C4: a run that follows an uninterrupted run, and is itself uninterrupted,
\* leaves the ledger exactly as the first run left it.
C4_IdempotentResume ==
    (RunReturnedClean /\ prevClean /\ runs >= 2) => results_path.data = startData

\* ---- C5 ----------------------------------------------------------------------
\* C5: the value count_existing_results returns never decreases; a step that
\* increases it increases it by one and belongs to an item whose outcome is
\* Completed; while the current item's outcome is TimedOut, EmptyResponse or
\* Failed the count does not change.
C5_MonotonicProgress ==
    [][ /\ count_existing_results(results_path)' >= count_existing_results(results_path)
        /\ count_existing_results(results_path)' > count_existing_results(results_path)
             => /\ count_existing_results(results_path)'
                     = count_existing_results(results_path) + 1
                /\ outcome = "Completed"
        /\ outcome \in Failures
             => count_existing_results(results_path)'
                  = count_existing_results(results_path) ]_vars

\* a later run has added a record to a non-empty ledger after skipping a
\* failed item
C5_Witness ==
    /\ runs >= 2
    /\ StartCount > 0
    /\ Count > StartCount
    /\ \E i \in Indices : outcomes[i] \in Failures

\* ---- C6 ----------------------------------------------------------------------
\* the working slice [p, p + remaining) of the run, p the count at its start
Remaining ==
    IF STOP_AFTER_LIMIT
      THEN Min(OUTPUT_LIMIT - StartCount, total_prompts - StartCount)
      ELSE total_prompts - StartCount

WorkingSlice == {i \in Indices : StartCount <= i /\ i < StartCount + Remaining}

\* C6: when a run that entered the loop has returned without an interrupt,
\* every index of the working slice was submitted exactly once and no other
\* index was submitted, whatever the outcomes.
C6_FailureIsolation ==
    (RunReturnedClean /\ client = "closed") =>
        \A i \in Indices : submitted[i] = IF i \in WorkingSlice THEN 1 ELSE 0

\* an uninterrupted run over three or more items: the first timed out, the
\* second failed or came back empty, the third completed
C6_Witness ==
    /\ RunReturnedClean
    /\ client = "closed"
    /\ Cardinality(WorkingSlice) >= 3
    /\ outcomes[StartCount] = "TimedOut"
    /\ outcomes[StartCount + 1] \in {"EmptyResponse", "Failed"}
    /\ outcomes[StartCount + 2] = "Completed"

\* ---- C7 ----------------------------------------------------------------------
\* the ledger is a sequence of whole record lines
WholeRecords(data) ==
    /\ Len(data) % 2 = 0
    /\ \A k \in 1..Len(data) :
          IF k % 2 = 1 THEN data[k] >= 0 ELSE data[k] = NL

\* the lines of the items at slice positions 1..k whose outcome is Completed
RECURSIVE CompletedLines(_)
CompletedLines(k) ==
    IF k = 0 THEN <<>>
    ELSE CompletedLines(k - 1) \o
           (IF outcomes[prompts_to_process[k]] = "Completed"
              THEN <<prompts_to_process[k], NL>> ELSE <<>>)

\* C7: after an interrupt inside the loop, once the ledger handle is closed,
\* the ledger holds only whole records: the records it had at the start of
\* the run, then the records of the items completed before the item in
\* flight, then either nothing or one whole record of the item in flight.
C7_InterruptSafety ==
    (interrupted /\ exit # "raised" /\ pc \in {"finally", "idle"}) =>
        /\ WholeRecords(results_path.data)
        /\ \/ results_path.data = startData \o CompletedLines(index)
           \/ /\ index < Len(prompts_to_process)
              /\ results_path.data =
                    startData \o CompletedLines(index) \o <<Current, NL>>

\* the interrupt arrived between the write and the flush of the second
\* record of a resumed run
C7_Witness ==
    /\ interrupted
    /\ pc = "idle"
    /\ exit = "returned"
    /\ StartCount > 0
    /\ index = 1
    /\ index < Len(prompts_to_process)
    /\ results_path.data = startData \o CompletedLines(index) \o <<Current, NL>>
    /\ Len(CompletedLines(index)) > 0

\* ---- C8 ----------------------------------------------------------------------
\* C8: a run that created the client and has returned closed it exactly once,
\* no run closes it twice, and no request is issued on a closed client.
C8_ClientRelease ==
    /\ closes <= 1
    /\ badRequests = 0
    /\ (pc = "idle" /\ exit = "returned" /\ client # "none") =>
          (closes = 1 /\ client = "closed")

\* an interrupted run that had issued a request has returned
C8_Witness ==
    /\ pc = "idle"
    /\ exit = "returned"
    /\ interrupted
    /\ closes = 1
    /\ \E i \in Indices : submitted[i] > 0

\* ---- C9 ----------------------------------------------------------------------
\* C9: with the limit enabled and no interrupt, no item is in progress once
\* the record count has reached OUTPUT_LIMIT; a run that entered the loop and
\* returned with the count at the limit reported it; and in the scenario
\* (empty ledger, 5 prompts, limit 3, every call Completed) the ledger ends
\* with the records of indices 0, 1, 2, the limit is reported and indices 3
\* and 4 are never submitted.
C9_LimitEnforcement ==
    (STOP_AFTER_LIMIT /\ ~interrupted) =>
        /\ Count >= OUTPUT_LIMIT =>
               pc \notin {"request", "inflight", "response", "written"}
        /\ (RunReturnedClean /\ client = "closed" /\ Count >= OUTPUT_LIMIT)
               => reported
        /\ ( /\ RunReturnedClean
             /\ client = "closed"
             /\ startData = <<>>
             /\ total_prompts = 5
             /\ OUTPUT_LIMIT = 3
             /\ \A i \in Indices : outcomes[i] \in {"none", "Completed"} )
               => /\ results_path.data = <<0, NL, 1, NL, 2, NL>>
                  /\ reported
                  /\ submitted[3] = 0
                  /\ submitted[4] = 0

\* the scenario has run
C9_Witness ==
    /\ STOP_AFTER_LIMIT
    /\ RunReturnedClean
    /\ client = "closed"
    /\ startData = <<>>
    /\ total_prompts = 5
    /\ OUTPUT_LIMIT = 3
    /\ \A i \in Indices : outcomes[i] \in {"none", "Completed"}
    /\ Count = 3
    /\ reported

\* ---- C10 ---------------------------------------------------------------------
\* C10: a run that starts with the limit enabled and the count at or above
\* OUTPUT_LIMIT, or with the count at or above total_prompts, issues no
\* request and leaves the ledger's data as it was.
C10_NoOpWhenNothingRemains ==
    (runs >= 1 /\ ((STOP_AFTER_LIMIT /\ StartCount >= OUTPUT_LIMIT)
                     \/ StartCount >= total_prompts)) =>
        /\ \A i \in Indices : submitted[i] = 0
        /\ results_path.data = startData
        /\ results_file = <<>>
        /\ client = "none"

\* a run started on a ledger already at the limit, with prompts left
C10_Witness ==
    /\ runs >= 2
    /\ pc = "idle"
    /\ exit = "returned"
    /\ STOP_AFTER_LIMIT
    /\ StartCount = OUTPUT_LIMIT
    /\ total_prompts > OUTPUT_LIMIT
    /\ results_path.data = startData

\* ---- C11 ---------------------------------------------------------------------
\* the record lines of the source indices lo .. hi - 1 whose outcome in this
\* run is Completed, in source order
RECURSIVE CompletedRange(_, _)
CompletedRange(lo, hi) ==
    IF hi <= lo THEN <<>>
    ELSE CompletedRange(lo, hi - 1) \o
           (IF outcomes[hi - 1] = "Completed" THEN <<hi - 1, NL>> ELSE <<>>)

\* C11: when a run that entered the loop has returned without an interrupt,
\* the ledger is what it was at the start of the run followed by one record
\* line per working-slice item whose outcome was Completed, each the record
\* of that item's prompt, in source order; the other items add nothing.
C11_RecordsOfOneRun ==
    (RunReturnedClean /\ client = "closed") =>
        results_path.data =
            startData \o CompletedRange(StartCount, StartCount + Remaining)

\* the scenario: 4 prompts, limit not binding, the second one times out
C11_Witness ==
    /\ RunReturnedClean
    /\ client = "closed"
    /\ ~STOP_AFTER_LIMIT
    /\ total_prompts = 4
    /\ startData = <<>>
    /\ outcomes[1] = "TimedOut"
    /\ results_path.data = <<0, NL, 2, NL, 3, NL>>

\* ---- C12 ---------------------------------------------------------------------
\* the cache the last call found exists and has a line that is not a valid
\* prompt record
CorruptAtLoad ==
    /\ cacheAtLoad.exists
    /\ \E k \in 1..Len(cacheAtLoad.lines) :
          cacheAtLoad.lines[k] \in {BAD_JSON, NO_PROMPT, NOT_OBJECT}

\* C12: a load_prompts call that found a corrupt cache, and was not killed,
\* has returned (not raised), returned exactly the upstream sequence, and
\* left a cache that holds exactly the upstream rows.
C12_CorruptCacheRecovery ==
    (lpc = "idle" /\ lexit \in {"returned", "raised"} /\ CorruptAtLoad) =>
        /\ lexit = "returned"
        /\ prompts = Upstream
        /\ cache = [exists |-> TRUE, lines |-> Upstream]

\* ---- C20 ---------------------------------------------------------------------
\* C20: once a load_prompts call has been killed while writing the cache,
\* every call that returns afterwards returns the whole upstream sequence.
C20_StableAfterKilledFetch ==
    (killedWriting /\ lpc = "idle" /\ lexit = "returned") => prompts = Upstream

\* ---- C13 ---------------------------------------------------------------------
IsPrefix(a, b) == Len(a) <= Len(b) /\ SubSeq(b, 1, Len(a)) = a

\* number of record texts in the file that are followed by their "\n"
TerminatedRecords(data) ==
    Cardinality({k \in 1..(Len(data) - 1) : data[k] >= 0 /\ data[k + 1] = NL})

\* C13: with kills at any step, the step that returns from the append (write
\* and flush) leaves the record's whole line at the end of the file on disk;
\* no later step, kill included, removes or changes anything already in the
\* file; and count_existing_results never returns less than the number of
\* whole record lines in the file.
C13_DurableAppend ==
    [][ /\ IsPrefix(results_path.data, results_path'.data)
        /\ (pc = "written" /\ pc' = "loop")
             => results_path'.data = results_path.data \o <<Current, NL>>
        /\ count_existing_results(results_path)'
             >= TerminatedRecords(results_path'.data) ]_vars

\* the process was killed right after the flush of a record returned, and
\* the record is the last line of the file
C13_Witness ==
    /\ pc = "idle"
    /\ exit = "killed"
    /\ outcome = "Completed"
    /\ index >= 1
    /\ Len(results_path.data) >= 2
    /\ results_path.data[Len(results_path.data) - 1] = prompts_to_process[index]
    /\ results_path.data[Len(results_path.data)] = NL
    /\ count_existing_results(results_path) = StartCount + 1

NothingFailed == skipped = {} /\ \A i \in Indices : outcomes[i] \notin Failures

\* C19: while no request has failed, the ledger is exactly the record lines
\* of the source indices 0, 1, ..., Count - 1 in this order, whatever the
\* runs and the interrupts; so the record count is the first source index
\* without a record.
C19_LedgerIsSourcePrefix ==
    NothingFailed =>
        /\ Len(results_path.data) = 2 * Count
        /\ \A k \in 0..(Count - 1) :
              /\ results_path.data[2 * k + 1] = k
              /\ results_path.data[2 * k + 2] = NL

\* a run resumed after an interrupted run that had left records has added
\* records
C19_Witness ==
    /\ NothingFailed
    /\ runs = 2
    /\ ~prevClean
    /\ StartCount >= 1
    /\ Count >= StartCount + 1
    /\ interrupted
    /\ pc = "idle"

\* ---- C15 ---------------------------------------------------------------------
\* the source indices for which a request has been issued in this run
SubmittedSet == {i \in Indices : submitted[i] > 0}

\* C15: at every moment of a run the indices submitted so far are, each once,
\* an initial segment p, p + 1, ... of the working slice [p, p + remaining)
\* (so they are submitted one at a time in increasing order), the item in
\* flight is the largest of them, none is at or beyond total_prompts nor, with
\* the limit enabled, at or beyond OUTPUT_LIMIT; and when an uninterrupted
\* run that entered the loop has returned they are the whole working slice.
C15_WorkingSlice ==
    LET p == StartCount
        slice == WorkingSlice
        sub == SubmittedSet
    IN  /\ sub \subseteq slice
        /\ \A i \in sub :
              /\ submitted[i] = 1
              /\ \A j \in p..i : j \in sub
              /\ i < total_prompts
              /\ STOP_AFTER_LIMIT => i < OUTPUT_LIMIT
        /\ pc \in {"inflight", "response", "written"} =>
              (Current \in sub /\ \A j \in sub : j <= Current)
        /\ (RunReturnedClean /\ client = "closed") => sub = slice

\* a resumed, uninterrupted run whose slice is cut by the limit, not by the
\* end of the list, has submitted its two items
C15_Witness ==
    /\ RunReturnedClean
    /\ client = "closed"
    /\ STOP_AFTER_LIMIT
    /\ StartCount >= 1
    /\ total_prompts > OUTPUT_LIMIT
    /\ SubmittedSet = {StartCount, StartCount + 1}

\* ---- C16 ---------------------------------------------------------------------
\* C16 as claimed: an item whose request has been issued always reaches its
\* outcome, and a Completed item is always written and flushed, before
\* anything else happens to the run.
C16_CooperativeCancellation ==
    [][ /\ pc = "inflight" => pc' = "response"
        /\ (pc = "response" /\ outcome = "Completed") => pc' = "written"
        /\ pc = "written" =>
              /\ pc' = "loop"
              /\ results_path'.data = results_path.data \o <<Current, NL>> ]_vars

\* C16 as amended: an interrupt takes effect at the step at which it
\* arrives.  Arriving before the record of the item in flight is written to
\* the handle, it ends the loop at once and the item leaves nothing in the
\* ledger; arriving after the write, the record still reaches the ledger.
\* Without an interrupt, an issued request reaches its outcome and a
\* Completed item is written, then flushed.
C16_InterruptAbandonsItem ==
    [][ /\ (pc = "inflight" /\ ~interrupted') => pc' = "response"
        /\ (pc = "response" /\ outcome = "Completed" /\ ~interrupted')
              => pc' = "written"
        /\ pc = "written" =>
              results_path'.data = results_path.data \o <<Current, NL>>
        /\ (pc \in {"request", "inflight", "response"} /\ interrupted')
              => /\ pc' = "finally"
                 /\ results_path' = results_path ]_vars

\* an interrupted run has returned; the request of its item in flight had
\* been issued and never reached an outcome
C16_Witness ==
    /\ pc = "idle"
    /\ exit = "returned"
    /\ interrupted
    /\ index < Len(prompts_to_process)
    /\ submitted[Current] = 1
    /\ outcomes[Current] = "none"
    /\ results_path.data = startData \o CompletedLines(index)

\* ---- C18 ---------------------------------------------------------------------
\* C18: whenever the run has printed that the output limit was reached, the
\* ledger holds exactly OUTPUT_LIMIT records.
C18_LimitReportTruthful == reported => Count = OUTPUT_LIMIT

\* ---- C17 ---------------------------------------------------------------------
\* number of requests issued in this run
RECURSIVE SubmittedUpTo(_)
SubmittedUpTo(n) == IF n = 0 THEN 0 ELSE SubmittedUpTo(n - 1) + submitted[n - 1]

\* the record count at which nothing remains to do
Cap == IF STOP_AFTER_LIMIT THEN Min(OUTPUT_LIMIT, total_prompts) ELSE total_prompts

\* C17: every run that has started eventually ends; a run issues at most
\* min(OUTPUT_LIMIT - p, total_prompts - p) requests (total_prompts - p
\* without the limit); the record count never passes the cap
\* min(OUTPUT_LIMIT, total_prompts) (total_prompts without the limit), and a
\* run is a no-op exactly when the count has reached it, so that at most
\* cap - count runs can each add a record before every further run is a
\* no-op.
C17_Termination ==
    /\ (pc # "idle") ~> (pc = "idle")
    /\ [](SubmittedUpTo(MaxPrompts) <= Max(0, Remaining))
    /\ [](Count <= Cap /\ (NothingToDo(Count) <=> Count >= Cap))

\* repeated runs, the first of which skipped an item, have brought the
\* ledger to the cap
C17_Witness ==
    /\ pc = "idle"
    /\ exit = "returned"
    /\ runs >= 2
    /\ skipped # {}
    /\ Count = Cap
    /\ Count > StartCount
    /\ NothingToDo(Count)
====
